---- MODULE Spec2Model ----
(***************************************************************************)
(* CivicConnectAi: the issue submission handler (POST /api/issues), the    *)
(* status update handler (PATCH /api/issues/:id/status), the reads of an   *)
(* issue's history (GET /api/issues/:id/history) and of the statistics     *)
(* (GET /api/stats), and the storage calls they make, as a state machine   *)
(* over the issues and issue_status_history tables.                        *)
(*                                                                         *)
(* JavaScript values: a string is a TLA+ string; null and undefined are    *)
(* the two reserved strings NULL and UNDEFINED, which no input set holds;  *)
(* a nullable object, number or timestamp is a sequence of length 0 (null) *)
(* or 1. Timestamps are milliseconds.                                      *)
(***************************************************************************)
EXTENDS Integers, Sequences, FiniteSets, TLC

VARIABLES issues, history, now, pc, req, nreq

vars == <<issues, history, now, pc, req, nreq>>

\* ------------------------------------------------------------------ bounds
MaxRequests == 3
MaxTime == 1
MaxStatIssues == 4
MaxListIssues == 3

\* ------------------------------------------------------- JavaScript values
NULL == "<null>"
UNDEFINED == "<undefined>"

\* a value that `||` skips: "", null or undefined
Falsy(v) == v \in {"", NULL, UNDEFINED}

\* a || b
Or(a, b) == IF Falsy(a) THEN b ELSE a

\* obj?.field on a nullable object
Opt(obj, field) == IF obj = <<>> THEN UNDEFINED ELSE obj[1][field]

\* a JavaScript number: NaN, or a value in hundredths (1907 is 19.07)
NaN == [nan |-> TRUE, val |-> 0]
Num(n) == [nan |-> FALSE, val |-> n]

\* parseFloat on the strings the requests carry: the number that the longest
\* numeric prefix of the string spells, NaN when there is no such prefix
parseFloat(s) ==
  CASE s = "19.07" -> Num(1907)
    [] s = "72.87" -> Num(7287)
    [] s = "0" -> Num(0)
    [] s = "12abc" -> Num(1200)
    [] OTHER -> NaN

\* parseInt on the strings the queries carry: <<n>> for the integer n, <<>>
\* for NaN
parseInt(s) ==
  CASE s = "50" -> <<50>>
    [] s = "0" -> <<0>>
    [] s = "1" -> <<1>>
    [] s = "2" -> <<2>>
    [] OTHER -> <<>>

\* a column written with undefined (or not written) takes its default
Col(v, default) == IF v = UNDEFINED THEN default ELSE v

\* ------------------------------------------------------------------ schema
IssueTypes == {"pothole", "garbage", "streetlight", "water_leakage", "road_damage", "other"}

IssueStatuses == {"submitted", "acknowledged", "in_progress", "resolved", "rejected"}

Priorities == {"low", "medium", "high", "critical"}

\* the rows of the users table: no route of the server writes it
Users == {"u1"}

\* a reference column accepts NULL or the id of an existing row
RefersToUser(v) == v \in Users \cup {NULL, UNDEFINED}

IssueExists(id) == id \in 1..Len(issues)

\* --------------------------------------------------------------- requests
\* req.body: a field the request does not carry is undefined
NoBody ==
  [title |-> UNDEFINED, description |-> UNDEFINED, issueType |-> UNDEFINED,
   priority |-> UNDEFINED, location |-> UNDEFINED, assignedDepartment |-> UNDEFINED,
   reporterId |-> UNDEFINED, status |-> UNDEFINED, notes |-> UNDEFINED,
   updatedBy |-> UNDEFINED, assignedTo |-> UNDEFINED,
   latitude |-> UNDEFINED, longitude |-> UNDEFINED]

\* the locals of a handler that is not running. row is newIssue or
\* updatedIssue; wrote and logged say whether the call of createIssue or
\* updateIssue wrote a row and whether addStatusHistory returned; error is what
\* the catch block caught: "validation" (insertIssueSchema.parse threw),
\* "constraint" (the database refused the statement) or "storage" (the call
\* was rejected); res is the status of the response. entries is the body of
\* a history response; department and stats are the query and the body of a
\* statistics response, and with limit and offset the query and entries the
\* body of a list response; fields are the paths that the error text of a 500
\* response names.
NoReq ==
  [kind |-> "none", id |-> 0, body |-> NoBody, hasPhoto |-> FALSE, hasAudio |-> FALSE,
   aiDetectionResult |-> <<>>, transcription |-> NULL, extractedInfo |-> <<>>,
   updateData |-> <<>>, stamp |-> 0, row |-> <<>>, wrote |-> FALSE, logged |-> FALSE,
   entries |-> <<>>, department |-> UNDEFINED, limit |-> UNDEFINED,
   offset |-> UNDEFINED, stats |-> <<>>, error |-> "",
   fields |-> {}, res |-> 0]

\* the handlers that can be in flight together
Procs == {1}

\* the outcomes of a call to the database: it answers, or it rejects
\* (connection lost, pool exhausted)
StorageOutcomes == {"ok", "error"}

\* ------------------------------------------------- storage (DatabaseStorage)
\* updateIssue that leaves the status of a resolved or rejected row alone
updateIssueTerminalLocked(row, updates, t) ==
  [f \in DOMAIN row |->
     IF f = "updatedAt" THEN t
     ELSE IF f \notin DOMAIN updates THEN row[f]
     ELSE IF f = "status" /\ row.status \in {"resolved", "rejected"} THEN row[f]
     ELSE IF f = "actualResolutionDate" THEN updates[f]
     ELSE Col(updates[f], row[f])]

\* updateIssue that keeps a resolution date the row already has
updateIssueKeepsFirstDate(row, updates, t) ==
  [f \in DOMAIN row |->
     IF f = "updatedAt" THEN t
     ELSE IF f \notin DOMAIN updates THEN row[f]
     ELSE IF f = "actualResolutionDate"
          THEN (IF row[f] # <<>> THEN row[f] ELSE updates[f])
     ELSE Col(updates[f], row[f])]

\* updateIssue: .set({ ...updates, updatedAt: new Date() }); a key that is
\* absent or undefined leaves its column alone
updateIssue(row, updates, t) ==
  [f \in DOMAIN row |->
     IF f = "updatedAt" THEN t
     ELSE IF f \notin DOMAIN updates THEN row[f]
     ELSE IF f = "actualResolutionDate" THEN updates[f]
     ELSE Col(updates[f], row[f])]

\* a table that also rejects submitted as the status of an update
UpdateAcceptedNoResubmit(updates) ==
  updates["status"] \in (IssueStatuses \ {"submitted"}) \cup {UNDEFINED}

\* the issues table rejects a status outside issue_status
UpdateAccepted(updates) == updates["status"] \in IssueStatuses \cup {UNDEFINED}

\* the row addStatusHistory inserts: notes and updatedBy default to NULL,
\* createdAt to now()
HistoryRow(h, t) ==
  [issueId |-> h.issueId, status |-> h.status, notes |-> Col(h.notes, NULL),
   updatedBy |-> Col(h.updatedBy, NULL), createdAt |-> t]

\* issue_status_history: status is NOT NULL and of issue_status, issue_id
\* references issues.id, updated_by references users.id
HistoryAccepted(h) ==
  /\ h.status \in IssueStatuses
  /\ IssueExists(h.issueId)
  /\ RefersToUser(h.updatedBy)

\* ------------------------------------------------------ AI calls (openai.ts)
\* a confidence is a number of hundredths (92 is 0.92); the reply carries it
\* as <<n>>, or as <<>> when the field is missing.
\* Math.max(0, Math.min(1, result.confidence || 0))
ClampConfidence(c) ==
  LET n == IF c = <<>> THEN 0 ELSE c[1]
  IN IF n < 0 THEN 0 ELSE IF n > 100 THEN 100 ELSE n

\* analyzeIssueImage: the fields of the model's JSON reply, each with its
\* fallback
analyzeIssueImage(result) ==
  [issueType |-> Or(result.issueType, "other"),
   confidence |-> ClampConfidence(result.confidence),
   description |-> Or(result.description, "Issue detected in image"),
   severity |-> Or(result.severity, "medium"),
   suggestedDepartment |-> Or(result.suggestedDepartment, "General Services")]

\* extractIssueFromText: location is passed through as it is; description
\* falls back to the transcribed text
extractIssueFromText(result, text) ==
  [issueType |-> Or(result.issueType, "other"),
   location |-> result.location,
   description |-> Or(result.description, text),
   priority |-> Or(result.priority, "medium")]

\* getIssueStatusHistory ordering by createdAt descending
getIssueStatusHistoryDescending(issueId) ==
  LET rows == {k \in 1..Len(history) : history[k].issueId = issueId}
      n == Cardinality(rows)
  IN {[j \in 1..n |-> history[f[j]]] :
        f \in {g \in [1..n -> rows] :
                 /\ \A a, b \in 1..n : a # b => g[a] # g[b]
                 /\ \A a, b \in 1..n :
                      a < b => history[g[a]].createdAt >= history[g[b]].createdAt}}

\* getIssueStatusHistory: the rows where issue_id is issueId, ordered by
\* created_at ascending. The query names no second sort key, so rows with the
\* same created_at come in any order: the operator is the set of the results
\* the query can return.
getIssueStatusHistory(issueId) ==
  LET rows == {k \in 1..Len(history) : history[k].issueId = issueId}
      n == Cardinality(rows)
  IN {[j \in 1..n |-> history[f[j]]] :
        f \in {g \in [1..n -> rows] :
                 /\ \A a, b \in 1..n : a # b => g[a] # g[b]
                 /\ \A a, b \in 1..n :
                      a < b => history[g[a]].createdAt <= history[g[b]].createdAt}}

\* the rows of the issues table in an order that is descending in createdAt
Descending ==
  LET n == Len(issues)
  IN {[j \in 1..n |-> issues[f[j]]] :
        f \in {g \in [1..n -> 1..n] :
                 /\ \A a, b \in 1..n : a # b => g[a] # g[b]
                 /\ \A a, b \in 1..n :
                      a < b => issues[g[a]].createdAt >= issues[g[b]].createdAt}}

\* getIssues without the department condition
getIssuesUnfiltered(department, limit, offset) ==
  {LET from == IF offset # <<>> /\ offset[1] # 0 THEN offset[1] ELSE 0
       upto == IF limit # <<>> /\ limit[1] # 0 THEN from + limit[1] ELSE Len(rows)
   IN SubSeq(rows, from + 1, IF upto < Len(rows) THEN upto ELSE Len(rows)) :
     rows \in Descending}

\* getIssues with the filters reporterId, status and issueType absent: the
\* rows whose assigned_department is a truthy department filter, ordered by
\* created_at descending, rows with the same created_at in any order, then
\* cut by a truthy limit and a truthy offset. The operator is the set of
\* the results the query can return.
getIssues(department, limit, offset) ==
  {LET rows == IF Falsy(department) THEN all
               ELSE SelectSeq(all, LAMBDA i : i.assignedDepartment = department)
       from == IF offset # <<>> /\ offset[1] # 0 THEN offset[1] ELSE 0
       upto == IF limit # <<>> /\ limit[1] # 0 THEN from + limit[1] ELSE Len(rows)
   IN SubSeq(rows, from + 1, IF upto < Len(rows) THEN upto ELSE Len(rows)) :
     all \in Descending}

\* getIssueStats. Timestamps are milliseconds; avgResolutionDays is a number
\* of tenths of a day (30 is 3.0).
MsPerDay == 86400000

\* the rows getIssueStats selects: all of them, or with a truthy department
\* filter those assigned to it
AllIssues(department) ==
  IF Falsy(department) THEN issues
  ELSE SelectSeq(issues, LAMBDA i : i.assignedDepartment = department)

\* pending counting the submitted issues only
StatsPendingSubmittedOnly(allIssues) ==
  Len(SelectSeq(allIssues, LAMBDA i : i.status = "submitted"))

StatsPending(allIssues) ==
  Len(SelectSeq(allIssues, LAMBDA i : i.status = "submitted" \/ i.status = "acknowledged"))

StatsInProgress(allIssues) ==
  Len(SelectSeq(allIssues, LAMBDA i : i.status = "in_progress"))

StatsResolved(allIssues) ==
  Len(SelectSeq(allIssues, LAMBDA i : i.status = "resolved"))

\* resolvedIssues taking every issue that has a resolution date
ResolvedIssuesAnyStatus(allIssues) ==
  SelectSeq(allIssues, LAMBDA i : i.actualResolutionDate # <<>>)

ResolvedIssues(allIssues) ==
  SelectSeq(allIssues, LAMBDA i : i.status = "resolved" /\ i.actualResolutionDate # <<>>)

\* Math.ceil(a / b) for b > 0
Ceil(a, b) == -((-a) \div b)

\* diffDays with Math.floor
DiffDaysFloor(issue) ==
  (issue.actualResolutionDate[1] - issue.createdAt) \div MsPerDay

DiffDays(issue) ==
  Ceil(issue.actualResolutionDate[1] - issue.createdAt, MsPerDay)

\* resolvedIssues.reduce((sum, issue) => sum + diffDays, 0)
RECURSIVE TotalDays(_)
TotalDays(resolvedIssues) ==
  IF resolvedIssues = <<>> THEN 0
  ELSE TotalDays(SubSeq(resolvedIssues, 1, Len(resolvedIssues) - 1))
       + DiffDays(resolvedIssues[Len(resolvedIssues)])

\* Math.round((totalDays / n) * 10) / 10 in tenths; Math.round takes a half
\* up
RoundTenths(totalDays, n) == (20 * totalDays + n) \div (2 * n)

getIssueStats(department) ==
  LET allIssues == AllIssues(department)
      resolvedIssues == ResolvedIssues(allIssues)
  IN [total |-> Len(allIssues),
      pending |-> StatsPending(allIssues),
      inProgress |-> StatsInProgress(allIssues),
      resolved |-> StatsResolved(allIssues),
      avgResolutionDays |->
        IF Len(resolvedIssues) > 0
        THEN RoundTenths(TotalDays(resolvedIssues), Len(resolvedIssues))
        ELSE 0]

\* ------------------------------------------------------- POST /api/issues
\* the fields of issueData
\* title with the voice description tried before the image description
IssueTitleVoiceFirst(body, ai, ex) ==
  Or(Or(Or(body.title, Opt(ex, "description")), Opt(ai, "description")), "New Issue")

IssueTitle(body, ai, ex) ==
  Or(Or(Or(body.title, Opt(ai, "description")), Opt(ex, "description")), "New Issue")

\* description ending in the default of title
IssueDescriptionWithDefault(body, ai, ex) ==
  Or(Or(Or(body.description, Opt(ai, "description")), Opt(ex, "description")), "New Issue")

IssueDescription(body, ai, ex) ==
  Or(Or(body.description, Opt(ai, "description")), Opt(ex, "description"))

\* issueType without the image-detected type
IssueIssueTypeNoImage(body, ai, ex) ==
  Or(Or(body.issueType, Opt(ex, "issueType")), "other")

IssueIssueType(body, ai, ex) ==
  Or(Or(Or(body.issueType, Opt(ai, "issueType")), Opt(ex, "issueType")), "other")

\* priority with the voice-extracted priority tried before the image severity
IssuePriorityVoiceFirst(body, ai, ex) ==
  Or(Or(Or(body.priority, Opt(ex, "priority")), Opt(ai, "severity")), "medium")

IssuePriority(body, ai, ex) ==
  Or(Or(Or(body.priority, Opt(ai, "severity")), Opt(ex, "priority")), "medium")

\* location with the voice-extracted location tried before the user's
IssueLocationVoiceFirst(body, ai, ex) ==
  Or(Or(Opt(ex, "location"), body.location), "")

IssueLocation(body, ai, ex) ==
  Or(Or(body.location, Opt(ex, "location")), "")

\* assignedDepartment without the image's suggestion
IssueAssignedDepartmentNoImage(body, ai, ex) ==
  Or(body.assignedDepartment, "")

IssueAssignedDepartment(body, ai, ex) ==
  Or(Or(body.assignedDepartment, Opt(ai, "suggestedDepartment")), "")

\* aiDetectionResult?.confidence || null: a nullable number, <<>> for null;
\* || skips the number 0
IssueAiConfidence(body, ai, ex) ==
  IF ai = <<>> \/ ai[1].confidence = 0 THEN <<>> ELSE <<ai[1].confidence>>

\* req.body.latitude ? parseFloat(req.body.latitude) : null, a nullable
\* number; longitude alike
IssueLatitude(body, ai, ex) ==
  IF Falsy(body.latitude) THEN <<>> ELSE <<parseFloat(body.latitude)>>

IssueLongitude(body, ai, ex) ==
  IF Falsy(body.longitude) THEN <<>> ELSE <<parseFloat(body.longitude)>>

IssueData(body, ai, ex) ==
  [title |-> IssueTitle(body, ai, ex),
   description |-> IssueDescription(body, ai, ex),
   issueType |-> IssueIssueType(body, ai, ex),
   priority |-> IssuePriority(body, ai, ex),
   location |-> IssueLocation(body, ai, ex),
   assignedDepartment |-> IssueAssignedDepartment(body, ai, ex),
   latitude |-> IssueLatitude(body, ai, ex),
   longitude |-> IssueLongitude(body, ai, ex),
   reporterId |-> Or(body.reporterId, NULL),
   aiConfidence |-> IssueAiConfidence(body, ai, ex)]

\* a schema that takes any string as issueType and as priority
ValidEnumsUnchecked(data) ==
  /\ data.title \notin {NULL, UNDEFINED}
  /\ data.location \notin {NULL, UNDEFINED}
  /\ data.latitude = <<>> \/ ~data.latitude[1].nan
  /\ data.longitude = <<>> \/ ~data.longitude[1].nan

\* insertIssueSchema.parse: title and location are required strings, issueType
\* is required and of issue_type, priority is of priority when given,
\* description may be absent, latitude and longitude are null or a number,
\* which NaN is not
Valid(data) ==
  /\ data.title \notin {NULL, UNDEFINED}
  /\ data.location \notin {NULL, UNDEFINED}
  /\ data.issueType \in IssueTypes
  /\ data.priority \in Priorities \cup {NULL, UNDEFINED}
  /\ data.latitude = <<>> \/ ~data.latitude[1].nan
  /\ data.longitude = <<>> \/ ~data.longitude[1].nan

\* the paths of the issues of the ZodError that insertIssueSchema.parse
\* throws; its message, which the 500 response carries as error, is the JSON
\* text of these issues
ZodPaths(data) ==
  {f \in {"title", "location"} : data[f] \in {NULL, UNDEFINED}}
  \cup {f \in {"issueType"} : data[f] \notin IssueTypes}
  \cup {f \in {"priority"} : data[f] \notin Priorities \cup {NULL, UNDEFINED}}
  \cup {f \in {"latitude", "longitude"} : data[f] # <<>> /\ data[f][1].nan}

\* the issues table: reporter_id references users.id
IssueAccepted(data) == RefersToUser(data.reporterId)

\* createIssue with acknowledged as the default of the status column
createIssueAcknowledged(data, id, t) ==
  [id |-> id,
   reporterId |-> data.reporterId,
   title |-> data.title,
   description |-> Col(data.description, NULL),
   issueType |-> data.issueType,
   priority |-> Col(data.priority, "medium"),
   status |-> "acknowledged",
   location |-> data.location,
   latitude |-> data.latitude,
   longitude |-> data.longitude,
   assignedDepartment |-> data.assignedDepartment,
   assignedTo |-> NULL,
   aiConfidence |-> data.aiConfidence,
   actualResolutionDate |-> <<>>,
   createdAt |-> t,
   updatedAt |-> t]

\* createIssue: the inserted row, with the defaults of the columns that
\* issueData does not give
createIssue(data, id, t) ==
  [id |-> id,
   reporterId |-> data.reporterId,
   title |-> data.title,
   description |-> Col(data.description, NULL),
   issueType |-> data.issueType,
   priority |-> Col(data.priority, "medium"),
   status |-> "submitted",
   location |-> data.location,
   latitude |-> data.latitude,
   longitude |-> data.longitude,
   assignedDepartment |-> data.assignedDepartment,
   assignedTo |-> NULL,
   aiConfidence |-> data.aiConfidence,
   actualResolutionDate |-> <<>>,
   createdAt |-> t,
   updatedAt |-> t]

\* where the handler first waits: the image analysis if a photo came, else
\* the transcription if audio came, else storage.createIssue
AfterBegin(hasPhoto, hasAudio) ==
  IF hasPhoto THEN "post_photo" ELSE IF hasAudio THEN "post_audio" ELSE "post_create"

\* a submission arrives: its body and whether it carries a photo and audio
PostBegin(p, bodies, attachments) ==
  /\ pc[p] = "idle"
  /\ nreq < MaxRequests
  /\ \E body \in bodies, hasPhoto \in attachments, hasAudio \in attachments :
       /\ req' = [req EXCEPT ![p] =
                    [NoReq EXCEPT !.kind = "post", !.body = body,
                                  !.hasPhoto = hasPhoto, !.hasAudio = hasAudio]]
       /\ pc' = [pc EXCEPT ![p] = AfterBegin(hasPhoto, hasAudio)]
  /\ nreq' = nreq + 1
  /\ UNCHANGED <<issues, history, now>>

\* the replies of the image model: every field given or missing, with the
\* confidence 0.92; the full reply with a confidence that is missing, 0, 1,
\* below 0 and above 1; and a reply whose issueType and severity are not of
\* the enumerations
ImageReply(t, c, d, s, g) ==
  [issueType |-> t, confidence |-> c, description |-> d, severity |-> s,
   suggestedDepartment |-> g]

ImageReplies ==
  {ImageReply(t, <<92>>, d, s, g) :
     t \in {UNDEFINED, "pothole"}, d \in {UNDEFINED, "Large pothole"},
     s \in {UNDEFINED, "high"}, g \in {UNDEFINED, "Public Works"}}
  \cup {ImageReply("pothole", c, "Large pothole", "high", "Public Works") :
          c \in {<<>>, <<0>>, <<100>>, <<-20>>, <<150>>}}
  \cup {ImageReply("graffiti", <<92>>, "Wall painted", "urgent", "Public Works")}

\* <<>> is a failed call (analyzeIssueImage throws), <<r>> the parsed JSON r
ImageOutcomes == {<<>>} \cup {<<r>> : r \in ImageReplies}

\* the photo step with a failed analysis ending the submission
PostPhotoFailureAborts(p) ==
  /\ pc[p] = "post_photo"
  /\ \E o \in ImageOutcomes :
       IF o = <<>>
       THEN /\ req' = [req EXCEPT ![p].res = 500, ![p].error = "ai"]
            /\ pc' = [pc EXCEPT ![p] = "done"]
       ELSE /\ req' = [req EXCEPT ![p].aiDetectionResult = <<analyzeIssueImage(o[1])>>]
            /\ pc' = [pc EXCEPT ![p] = AfterBegin(FALSE, req[p].hasAudio)]
  /\ UNCHANGED <<issues, history, now, nreq>>

\* aiDetectionResult = await analyzeIssueImage(...), a failure is logged and
\* leaves null
PostPhoto(p) ==
  /\ pc[p] = "post_photo"
  /\ \E o \in ImageOutcomes :
       req' = [req EXCEPT ![p].aiDetectionResult =
                 IF o = <<>> THEN <<>> ELSE <<analyzeIssueImage(o[1])>>]
  /\ pc' = [pc EXCEPT ![p] = AfterBegin(FALSE, req[p].hasAudio)]
  /\ UNCHANGED <<issues, history, now, nreq>>

\* the replies of the extraction model: every field given or missing, and a
\* reply whose issueType and priority are not of the enumerations
ExtractReplies ==
  {[issueType |-> t, location |-> l, description |-> d, priority |-> q] :
     t \in {UNDEFINED, "streetlight"}, l \in {UNDEFINED, "", "MG Road"},
     d \in {UNDEFINED, "Lamp is out"}, q \in {UNDEFINED, "low"}}
  \cup {[issueType |-> "flooding", location |-> "MG Road",
          description |-> "Water on the road", priority |-> "urgent"]}

\* transcribeAudio then extractIssueFromText: text is <<>> when the
\* transcription failed, reply is <<>> when the extraction failed
AudioOutcomes ==
  {[text |-> <<>>, reply |-> <<>>]}
  \cup {[text |-> <<t>>, reply |-> r] :
          t \in {"", "lamp broken"}, r \in {<<>>} \cup {<<e>> : e \in ExtractReplies}}

\* the audio step with a failure that also drops the result of the image
\* analysis
PostAudioFailureDropsImage(p) ==
  /\ pc[p] = "post_audio"
  /\ \E o \in AudioOutcomes :
       req' = [req EXCEPT
                 ![p].transcription = IF o.text = <<>> THEN NULL ELSE o.text[1],
                 ![p].extractedInfo =
                    IF o.text = <<>> \/ o.reply = <<>> THEN <<>>
                    ELSE <<extractIssueFromText(o.reply[1], o.text[1])>>,
                 ![p].aiDetectionResult =
                    IF o.text = <<>> \/ o.reply = <<>> THEN <<>>
                    ELSE req[p].aiDetectionResult]
  /\ pc' = [pc EXCEPT ![p] = "post_create"]
  /\ UNCHANGED <<issues, history, now, nreq>>

\* the try block around both calls: transcription is kept when only the
\* extraction fails
PostAudio(p) ==
  /\ pc[p] = "post_audio"
  /\ \E o \in AudioOutcomes :
       req' = [req EXCEPT
                 ![p].transcription = IF o.text = <<>> THEN NULL ELSE o.text[1],
                 ![p].extractedInfo =
                    IF o.text = <<>> \/ o.reply = <<>> THEN <<>>
                    ELSE <<extractIssueFromText(o.reply[1], o.text[1])>>]
  /\ pc' = [pc EXCEPT ![p] = "post_create"]
  /\ UNCHANGED <<issues, history, now, nreq>>

\* the create step with the insert before the validation: the row is written
\* and then the validation error is answered
PostCreateIssueThenValidate(p) ==
  /\ pc[p] = "post_create"
  /\ LET data == IssueData(req[p].body, req[p].aiDetectionResult, req[p].extractedInfo)
         id == Len(issues) + 1
         row == createIssue(data, id, now)
     IN \E outcome \in StorageOutcomes :
          IF outcome = "error" \/ ~IssueAccepted(data)
          THEN /\ req' = [req EXCEPT ![p].res = 500,
                                     ![p].error = IF outcome = "error" THEN "storage"
                                                  ELSE "constraint"]
               /\ pc' = [pc EXCEPT ![p] = "done"]
               /\ UNCHANGED issues
          ELSE IF ~Valid(data)
          THEN /\ issues' = Append(issues, row)
               /\ req' = [req EXCEPT ![p].res = 500, ![p].error = "validation",
                                     ![p].fields = ZodPaths(data)]
               /\ pc' = [pc EXCEPT ![p] = "done"]
          ELSE /\ issues' = Append(issues, row)
               /\ req' = [req EXCEPT ![p].id = id, ![p].row = <<row>>, ![p].wrote = TRUE]
               /\ pc' = [pc EXCEPT ![p] = "post_history"]
  /\ UNCHANGED <<history, now, nreq>>

\* issueData is built and validated, then await storage.createIssue: a
\* validation error or a rejected insert goes to the catch block, which
\* answers 500 with the message of what it caught
PostCreateIssue(p) ==
  /\ pc[p] = "post_create"
  /\ LET data == IssueData(req[p].body, req[p].aiDetectionResult, req[p].extractedInfo)
         id == Len(issues) + 1
     IN \E outcome \in StorageOutcomes :
          IF ~Valid(data) \/ outcome = "error" \/ ~IssueAccepted(data)
          THEN /\ req' = [req EXCEPT ![p].res = 500,
                                     ![p].error = IF ~Valid(data) THEN "validation"
                                                  ELSE IF outcome = "error" THEN "storage"
                                                  ELSE "constraint",
                                     ![p].fields = IF ~Valid(data) THEN ZodPaths(data)
                                                   ELSE {}]
               /\ pc' = [pc EXCEPT ![p] = "done"]
               /\ UNCHANGED issues
          ELSE LET row == createIssue(data, id, now)
               IN /\ issues' = Append(issues, row)
                  /\ req' = [req EXCEPT ![p].id = id, ![p].row = <<row>>, ![p].wrote = TRUE]
                  /\ pc' = [pc EXCEPT ![p] = "post_history"]
  /\ UNCHANGED <<history, now, nreq>>

\* await storage.addStatusHistory({issueId: newIssue.id, status: "submitted",
\* ...}), then res.status(201).json(newIssue)
PostAddHistory(p) ==
  /\ pc[p] = "post_history"
  /\ LET h == [issueId |-> req[p].id, status |-> "submitted", notes |-> "Issue submitted",
               updatedBy |-> Or(req[p].body.reporterId, NULL)]
     IN \E outcome \in StorageOutcomes :
          IF outcome = "error" \/ ~HistoryAccepted(h)
          THEN /\ req' = [req EXCEPT ![p].res = 500,
                                     ![p].error = IF outcome = "error" THEN "storage"
                                                  ELSE "constraint"]
               /\ UNCHANGED history
          ELSE /\ history' = Append(history, HistoryRow(h, now))
               /\ req' = [req EXCEPT ![p].logged = TRUE, ![p].res = 201]
  /\ pc' = [pc EXCEPT ![p] = "done"]
  /\ UNCHANGED <<issues, now, nreq>>

\* ------------------------------------- PATCH /api/issues/:id/status
\* updateData with the resolution date written on every update: null unless
\* the target is resolved
UpdateDataAlwaysWritesDate(body, t) ==
  LET keys == {"status", "actualResolutionDate"}
              \cup (IF Falsy(body.assignedDepartment) THEN {} ELSE {"assignedDepartment"})
              \cup (IF Falsy(body.assignedTo) THEN {} ELSE {"assignedTo"})
  IN [k \in keys |->
        IF k = "actualResolutionDate"
        THEN (IF body.status = "resolved" THEN <<t>> ELSE <<>>)
        ELSE body[k]]

\* updateData without the resolution date
UpdateDataNeverWritesDate(body, t) ==
  LET keys == {"status"}
              \cup (IF Falsy(body.assignedDepartment) THEN {} ELSE {"assignedDepartment"})
              \cup (IF Falsy(body.assignedTo) THEN {} ELSE {"assignedTo"})
  IN [k \in keys |-> body[k]]

\* updateData as the handler builds it
UpdateData(body, t) ==
  LET keys == {"status"}
              \cup (IF Falsy(body.assignedDepartment) THEN {} ELSE {"assignedDepartment"})
              \cup (IF Falsy(body.assignedTo) THEN {} ELSE {"assignedTo"})
              \cup (IF body.status = "resolved" THEN {"actualResolutionDate"} ELSE {})
  IN [k \in keys |-> IF k = "actualResolutionDate" THEN <<t>> ELSE body[k]]

\* the bodies a status update is sent with: every status of the enumeration
\* and one outside it, with notes and an actor; and five more, with neither
\* notes nor actor, with the actor the admin panel sends ("admin", the id of no user), with a department, with an
\* assignee, and with both
PatchStatuses == IssueStatuses \cup {"bogus"}

PatchBody(s, n, u, d, a) ==
  [NoBody EXCEPT !.status = s, !.notes = n, !.updatedBy = u,
                 !.assignedDepartment = d, !.assignedTo = a]

PatchBodies ==
  {PatchBody(s, "fixed", "u1", UNDEFINED, UNDEFINED) : s \in PatchStatuses}
  \cup {PatchBody("acknowledged", UNDEFINED, UNDEFINED, UNDEFINED, UNDEFINED),
        PatchBody("resolved", UNDEFINED, "admin", UNDEFINED, UNDEFINED),
        PatchBody("in_progress", UNDEFINED, "u1", "Public Works", ""),
        PatchBody("acknowledged", UNDEFINED, "u1", "", "crew7"),
        PatchBody("resolved", "fixed", "u1", "Public Works", "crew7")}

\* the request arrives; the handler runs up to the call of storage.updateIssue.
\* id 0 is an id no issue has.
PatchBeginWith(p, bodies) ==
  /\ pc[p] = "idle"
  /\ nreq < MaxRequests
  /\ \E id \in 0..Len(issues), body \in bodies :
       req' = [req EXCEPT ![p] =
                 [NoReq EXCEPT !.kind = "patch", !.id = id, !.body = body,
                               !.updateData = UpdateData(body, now), !.stamp = now]]
  /\ pc' = [pc EXCEPT ![p] = "patch_update"]
  /\ nreq' = nreq + 1
  /\ UNCHANGED <<issues, history, now>>

PatchBegin(p) == PatchBeginWith(p, PatchBodies)

\* the update step without the condition on the id: every row is written
PatchUpdateIssueAllRows(p) ==
  /\ pc[p] = "patch_update"
  /\ \E outcome \in StorageOutcomes :
       IF outcome = "error" \/ ~UpdateAccepted(req[p].updateData)
       THEN /\ req' = [req EXCEPT ![p].res = 500,
                                  ![p].error = IF outcome = "error" THEN "storage"
                                               ELSE "constraint"]
            /\ pc' = [pc EXCEPT ![p] = "done"]
            /\ UNCHANGED issues
       ELSE IF IssueExists(req[p].id)
       THEN /\ issues' = [k \in 1..Len(issues) |->
                            updateIssue(issues[k], req[p].updateData, req[p].stamp)]
            /\ req' = [req EXCEPT ![p].row = <<issues'[req[p].id]>>, ![p].wrote = TRUE]
            /\ pc' = [pc EXCEPT ![p] = "patch_history"]
       ELSE /\ req' = [req EXCEPT ![p].row = <<>>]
            /\ pc' = [pc EXCEPT ![p] = "patch_history"]
            /\ UNCHANGED issues
  /\ UNCHANGED <<history, now, nreq>>

\* await storage.updateIssue(req.params.id, updateData): a rejection goes to
\* the catch block (500); an id that matches no row updates nothing and
\* returns undefined
PatchUpdateIssue(p) ==
  /\ pc[p] = "patch_update"
  /\ \E outcome \in StorageOutcomes :
       IF outcome = "error" \/ ~UpdateAccepted(req[p].updateData)
       THEN /\ req' = [req EXCEPT ![p].res = 500,
                                  ![p].error = IF outcome = "error" THEN "storage"
                                               ELSE "constraint"]
            /\ pc' = [pc EXCEPT ![p] = "done"]
            /\ UNCHANGED issues
       ELSE IF IssueExists(req[p].id)
       THEN LET row == updateIssue(issues[req[p].id], req[p].updateData, req[p].stamp)
            IN /\ issues' = [issues EXCEPT ![req[p].id] = row]
               /\ req' = [req EXCEPT ![p].row = <<row>>, ![p].wrote = TRUE]
               /\ pc' = [pc EXCEPT ![p] = "patch_history"]
       ELSE /\ req' = [req EXCEPT ![p].row = <<>>]
            /\ pc' = [pc EXCEPT ![p] = "patch_history"]
            /\ UNCHANGED issues
  /\ UNCHANGED <<history, now, nreq>>

\* the history step of an update writing over the issue's latest entry when
\* the issue has one
PatchAddHistoryOverwrites(p) ==
  /\ pc[p] = "patch_history"
  /\ LET h == [issueId |-> req[p].id, status |-> req[p].body.status,
               notes |-> req[p].body.notes, updatedBy |-> req[p].body.updatedBy]
         mine == {k \in 1..Len(history) : history[k].issueId = req[p].id}
     IN \E outcome \in StorageOutcomes :
          IF outcome = "error" \/ ~HistoryAccepted(h)
          THEN /\ req' = [req EXCEPT ![p].res = 500,
                                     ![p].error = IF outcome = "error" THEN "storage"
                                                  ELSE "constraint"]
               /\ UNCHANGED history
          ELSE /\ history' =
                    IF mine = {} THEN Append(history, HistoryRow(h, now))
                    ELSE [history EXCEPT
                            ![CHOOSE k \in mine : \A j \in mine : j <= k] = HistoryRow(h, now)]
               /\ req' = [req EXCEPT ![p].logged = TRUE, ![p].res = 200]
  /\ pc' = [pc EXCEPT ![p] = "done"]
  /\ UNCHANGED <<issues, now, nreq>>

\* await storage.addStatusHistory({issueId, status, notes, updatedBy}), then
\* res.json(updatedIssue); a rejection goes to the catch block (500)
PatchAddHistory(p) ==
  /\ pc[p] = "patch_history"
  /\ LET h == [issueId |-> req[p].id, status |-> req[p].body.status,
               notes |-> req[p].body.notes, updatedBy |-> req[p].body.updatedBy]
     IN \E outcome \in StorageOutcomes :
          IF outcome = "error" \/ ~HistoryAccepted(h)
          THEN /\ req' = [req EXCEPT ![p].res = 500,
                                     ![p].error = IF outcome = "error" THEN "storage"
                                                  ELSE "constraint"]
               /\ UNCHANGED history
          ELSE /\ history' = Append(history, HistoryRow(h, now))
               /\ req' = [req EXCEPT ![p].logged = TRUE, ![p].res = 200]
  /\ pc' = [pc EXCEPT ![p] = "done"]
  /\ UNCHANGED <<issues, now, nreq>>

\* ------------------------------------------ GET /api/issues/:id/history
\* res.json(await storage.getIssueStatusHistory(req.params.id)); a rejection
\* goes to the catch block (500)
GetHistory(p) ==
  /\ pc[p] = "idle"
  /\ \E id \in 0..Len(issues), outcome \in StorageOutcomes :
       IF outcome = "error"
       THEN req' = [req EXCEPT ![p] =
                      [NoReq EXCEPT !.kind = "history", !.id = id, !.res = 500,
                                    !.error = "storage"]]
       ELSE \E r \in getIssueStatusHistory(id) :
              req' = [req EXCEPT ![p] =
                        [NoReq EXCEPT !.kind = "history", !.id = id, !.entries = r,
                                      !.res = 200]]
  /\ pc' = [pc EXCEPT ![p] = "done"]
  /\ UNCHANGED <<issues, history, now, nreq>>

\* ------------------------------------------------------ GET /api/issues
\* the limit and the offset of the query
ListLimits == {UNDEFINED, "1", "0"}
ListOffsets == {UNDEFINED, "1"}

\* res.json(await storage.getIssues({department, limit: parseInt(limit),
\* offset: parseInt(offset)})) with limit = "50" and offset = "0" when the
\* query has none; a rejection goes to the catch block (500)
GetIssues(p) ==
  /\ pc[p] = "idle"
  /\ \E department \in {UNDEFINED, "", "Sanitation", "Public Works"},
        limit \in ListLimits, offset \in ListOffsets, outcome \in StorageOutcomes :
       LET query == [NoReq EXCEPT !.kind = "list", !.department = department,
                                  !.limit = limit, !.offset = offset]
       IN IF outcome = "error"
          THEN req' = [req EXCEPT ![p] = [query EXCEPT !.res = 500, !.error = "storage"]]
          ELSE \E r \in getIssues(department, parseInt(Col(limit, "50")),
                                  parseInt(Col(offset, "0"))) :
                 req' = [req EXCEPT ![p] = [query EXCEPT !.entries = r, !.res = 200]]
  /\ pc' = [pc EXCEPT ![p] = "done"]
  /\ UNCHANGED <<issues, history, now, nreq>>

\* ------------------------------------------------------- GET /api/stats
\* the department of the query: absent, empty, or a name
StatsDepartments == {UNDEFINED, "", "Sanitation", "Public Works"}

\* res.json(await storage.getIssueStats({department})); a rejection goes to
\* the catch block (500)
GetStats(p) ==
  /\ pc[p] = "idle"
  /\ \E department \in StatsDepartments, outcome \in StorageOutcomes :
       req' = [req EXCEPT ![p] =
                 IF outcome = "error"
                 THEN [NoReq EXCEPT !.kind = "stats", !.department = department,
                                    !.res = 500, !.error = "storage"]
                 ELSE [NoReq EXCEPT !.kind = "stats", !.department = department,
                                    !.stats = <<getIssueStats(department)>>,
                                    !.res = 200]]
  /\ pc' = [pc EXCEPT ![p] = "done"]
  /\ UNCHANGED <<issues, history, now, nreq>>

\* the response is sent and the handler's locals are gone
Finish(p) ==
  /\ pc[p] = "done"
  /\ pc' = [pc EXCEPT ![p] = "idle"]
  /\ req' = [req EXCEPT ![p] = NoReq]
  /\ UNCHANGED <<issues, history, now, nreq>>

\* time passes between two steps
Tick ==
  /\ now < MaxTime
  /\ now' = now + 1
  /\ UNCHANGED <<issues, history, pc, req, nreq>>

\* ----------------------------------------------------------- specifications
Init ==
  /\ issues = <<>>
  /\ history = <<>>
  /\ now = 0
  /\ pc = [p \in Procs |-> "idle"]
  /\ req = [p \in Procs |-> NoReq]
  /\ nreq = 0

\* the submissions of the workflow runs: explicit fields, no attachment
WorkflowBodies ==
  {[NoBody EXCEPT !.title = "Pothole on Main Road", !.issueType = "pothole",
                  !.priority = "high", !.location = "Bandra West",
                  !.assignedDepartment = x[1], !.reporterId = x[2]] :
     x \in {<<"", UNDEFINED>>, <<"Sanitation", "u1">>}}

\* submissions and status updates, one request after the other
Next ==
  \/ \E p \in Procs :
       \/ PostBegin(p, WorkflowBodies, {FALSE})
       \/ PostCreateIssue(p)
       \/ PostAddHistory(p)
       \/ PatchBegin(p)
       \/ PatchUpdateIssue(p)
       \/ PatchAddHistory(p)
       \/ Finish(p)
  \/ Tick

Spec == Init /\ [][Next]_vars

\* two handlers in flight together: each await of a handler is a point where
\* the other handler's statements can run
ConcurrentProcs == {1, 2}

InitConcurrent ==
  /\ issues = <<>>
  /\ history = <<>>
  /\ now = 0
  /\ pc = [p \in ConcurrentProcs |-> "idle"]
  /\ req = [p \in ConcurrentProcs |-> NoReq]
  /\ nreq = 0

\* the status updates of the concurrent runs: two of PatchBodies
ConcurrentBodies ==
  {PatchBody("acknowledged", UNDEFINED, UNDEFINED, UNDEFINED, UNDEFINED),
   PatchBody("resolved", "fixed", "u1", UNDEFINED, UNDEFINED)}

\* the submission of the concurrent runs: one of WorkflowBodies
ConcurrentSubmissions ==
  {b \in WorkflowBodies : b.reporterId = "u1"}

\* submissions and status updates of two clients, interleaved at the awaits
NextConcurrent ==
  \/ \E p \in ConcurrentProcs :
       \/ PostBegin(p, ConcurrentSubmissions, {FALSE})
       \/ PostCreateIssue(p)
       \/ PostAddHistory(p)
       \/ PatchBeginWith(p, ConcurrentBodies)
       \/ PatchUpdateIssue(p)
       \/ PatchAddHistory(p)
       \/ Finish(p)
  \/ Tick

SpecConcurrent == InitConcurrent /\ [][NextConcurrent]_vars

\* the status updates of the history runs: three of PatchBodies
HistoryBodies ==
  {PatchBody("acknowledged", UNDEFINED, UNDEFINED, UNDEFINED, UNDEFINED),
   PatchBody("resolved", "fixed", "u1", UNDEFINED, UNDEFINED),
   PatchBody("rejected", "fixed", "u1", UNDEFINED, UNDEFINED)}

\* submissions, status updates and reads of an issue's history
NextHistory ==
  \/ \E p \in Procs :
       \/ PostBegin(p, WorkflowBodies, {FALSE})
       \/ PostCreateIssue(p)
       \/ PostAddHistory(p)
       \/ PatchBeginWith(p, HistoryBodies)
       \/ PatchUpdateIssue(p)
       \/ PatchAddHistory(p)
       \/ GetHistory(p)
       \/ Finish(p)
  \/ Tick

SpecHistory == Init /\ [][NextHistory]_vars

\* the issues of the statistics runs, each <<status, assignedDepartment,
\* createdAt, actualResolutionDate>>: issues of every status that were never
\* resolved (as the seeding script and submissions insert them, a resolved one
\* included); issues resolved by a status update after 0 ms, a day, 2 days
\* and 1 ms, and 3 days; and an issue moved on from resolved, which keeps its
\* date
StatShapes ==
  {<<s, "", 0, <<>> >> : s \in IssueStatuses}
  \cup {<<"submitted", "Sanitation", 0, <<>> >>}
  \cup {<<"resolved", "", MsPerDay, <<MsPerDay>> >>,
        <<"resolved", "Sanitation", 0, <<MsPerDay>> >>,
        <<"resolved", "", 0, <<2 * MsPerDay + 1>> >>,
        <<"resolved", "Sanitation", 0, <<3 * MsPerDay>> >>}
  \cup {<<"acknowledged", "Sanitation", 0, <<MsPerDay>> >>}

\* the row of an issue of shape x with id k
StatIssue(k, x) ==
  [createIssue([title |-> "Test issue", description |-> NULL, issueType |-> "other",
                priority |-> "medium", location |-> "", latitude |-> <<>>,
                longitude |-> <<>>, assignedDepartment |-> x[2],
                reporterId |-> NULL, aiConfidence |-> <<>>], k, x[3])
     EXCEPT !.status = x[1], !.actualResolutionDate = x[4]]

\* the statistics are read over a table of up to MaxStatIssues issues
InitStats ==
  /\ \E n \in 0..MaxStatIssues :
       \E f \in [1..n -> StatShapes] :
         issues = [k \in 1..n |-> StatIssue(k, f[k])]
  /\ history = <<>>
  /\ now = 0
  /\ pc = [p \in Procs |-> "idle"]
  /\ req = [p \in Procs |-> NoReq]
  /\ nreq = 0

NextStats ==
  \E p \in Procs :
    \/ GetStats(p)
    \/ Finish(p)

SpecStats == InitStats /\ [][NextStats]_vars

\* the issues of the list runs, each <<status, assignedDepartment, createdAt,
\* actualResolutionDate>>: submitted issues with no department (null from
\* the seeding script, "" from a submission) or one of two, created at one of
\* two times
ListShapes ==
  {<<"submitted", d, t, <<>> >> : d \in {NULL, "", "Sanitation", "Public Works"},
                                  t \in {0, 1}}

\* the list and the statistics are read over a table of up to MaxListIssues
\* issues
InitList ==
  /\ \E n \in 0..MaxListIssues :
       \E f \in [1..n -> ListShapes] :
         issues = [k \in 1..n |-> StatIssue(k, f[k])]
  /\ history = <<>>
  /\ now = 0
  /\ pc = [p \in Procs |-> "idle"]
  /\ req = [p \in Procs |-> NoReq]
  /\ nreq = 0

NextList ==
  \E p \in Procs :
    \/ GetIssues(p)
    \/ GetStats(p)
    \/ Finish(p)

SpecList == InitList /\ [][NextList]_vars

\* the submissions of the fusion runs: every explicit field empty or given
\* (issueType and priority also given outside their enumerations), with and
\* without photo and audio
FusionBodies ==
  {[NoBody EXCEPT !.title = t, !.description = d, !.issueType = i, !.priority = q,
                  !.location = l, !.assignedDepartment = g] :
     t \in {"", "Broken lamp"}, d \in {"", "It is dark"},
     i \in {"", "garbage", "bogus"}, q \in {"", "critical", "urgent"},
     l \in {"", "Ward 5"}, g \in {"", "Sanitation"}}

\* the coordinates a submission carries: absent, empty, numeric strings, and
\* strings that are not numbers
GpsStrings == {UNDEFINED, "", "19.07", "72.87", "0", "abc", "12abc"}

\* submissions with valid explicit fields and every pair of coordinates
GpsBodies ==
  {[NoBody EXCEPT !.title = "Broken lamp", !.description = "", !.issueType = "garbage",
                  !.priority = "", !.location = "Ward 5", !.assignedDepartment = "",
                  !.latitude = a, !.longitude = b] :
     a \in GpsStrings, b \in GpsStrings}

\* one submission, from its arrival to its response
NextFusion ==
  \E p \in Procs :
    \/ PostBegin(p, FusionBodies, BOOLEAN)
    \/ PostBegin(p, GpsBodies, {FALSE})
    \/ PostPhoto(p)
    \/ PostAudio(p)
    \/ PostCreateIssue(p)
    \/ PostAddHistory(p)

SpecFusion == Init /\ [][NextFusion]_vars

\* ------------------------------------------------------------------ claims
\* the step in which p's call of storage.updateIssue writes a row
UpdateApplied(p) ==
  /\ pc[p] = "patch_update"
  /\ pc'[p] = "patch_history"
  /\ req'[p].wrote

\* C1: a status update whose target is resolved leaves the issue with
\* actualResolutionDate set to the time of that update; a status update to any
\* other status leaves actualResolutionDate as it was, set or not.
C1_ResolutionDateStamp ==
  [][\A p \in Procs :
       UpdateApplied(p) =>
         LET id == req[p].id
         IN IF req[p].body.status = "resolved"
            THEN issues'[id].actualResolutionDate = <<req[p].stamp>>
            ELSE issues'[id].actualResolutionDate = issues[id].actualResolutionDate]_vars

\* an update to another status has been written to an issue resolved before:
\* its resolution date is still there
C1_Witness ==
  \E p \in Procs :
    /\ pc[p] = "patch_history"
    /\ req[p].wrote
    /\ req[p].body.status \in IssueStatuses \ {"resolved"}
    /\ issues[req[p].id].actualResolutionDate # <<>>

\* C2: every status update applied to an existing issue appends exactly one
\* StatusHistoryEntry for that issue, carrying the requested status, the notes
\* and the actor: when the handler has answered, on a database that answers
\* its calls, the entry is the last one of the history.
C2_UpdateAppendsEntry ==
  \A p \in Procs :
    (pc[p] = "done" /\ req[p].kind = "patch" /\ req[p].wrote
       /\ req[p].error # "storage") =>
      /\ req[p].logged
      /\ history # <<>>
      /\ LET e == history[Len(history)]
         IN /\ e.issueId = req[p].id
            /\ e.status = req[p].body.status
            /\ e.notes = Col(req[p].body.notes, NULL)
            /\ e.updatedBy = Col(req[p].body.updatedBy, NULL)

\* C3: the primary write and its history append are atomic, for a submission
\* and for a status update: when a handler has answered, also with a failure,
\* its issue write is in the database if and only if its history entry is.
C3_WriteAndHistoryAtomic ==
  \A p \in Procs : pc[p] = "done" => (req[p].wrote <=> req[p].logged)

\* C4: a status update addressed to an id no issue has, on a database that
\* answers its calls, ends with Not-Found (404), appends no entry and changes
\* no issue.
C4_UnknownIdNotFound ==
  \A p \in Procs :
    (pc[p] = "done" /\ req[p].kind = "patch" /\ ~IssueExists(req[p].id)
       /\ req[p].body.status \in IssueStatuses /\ req[p].error # "storage") =>
      /\ req[p].res = 404
      /\ ~req[p].wrote
      /\ ~req[p].logged

\* the first value of a sequence that is not empty ("", null, undefined),
\* else the default
RECURSIVE FirstNonEmpty(_, _)
FirstNonEmpty(values, default) ==
  IF values = <<>> THEN default
  ELSE IF Head(values) \notin {"", NULL, UNDEFINED} THEN Head(values)
  ELSE FirstNonEmpty(Tail(values), default)

\* p's submission has created its issue
Created(p) ==
  /\ pc[p] \in {"post_history", "done"}
  /\ req[p].kind = "post"
  /\ req[p].wrote

\* the issue p's submission created, and what it was fused from
NewIssue(p) == issues[req[p].id]
UserField(p, f) == req[p].body[f]
ImageField(p, f) == Opt(req[p].aiDetectionResult, f)
VoiceField(p, f) == Opt(req[p].extractedInfo, f)

\* C5: the title of a created issue is the first non-empty of the user's title,
\* the image-detection description and the voice-extraction description, else
\* "New Issue"; an empty user title with the detection description
\* "Large pothole" gives the title "Large pothole".
C5_TitlePrecedence ==
  \A p \in Procs :
    Created(p) =>
      /\ NewIssue(p).title =
           FirstNonEmpty(<<UserField(p, "title"), ImageField(p, "description"),
                           VoiceField(p, "description")>>, "New Issue")
      /\ (UserField(p, "title") = "" /\ ImageField(p, "description") = "Large pothole")
           => NewIssue(p).title = "Large pothole"

\* the example: no user title, the detection describes a large pothole, and a
\* voice description is there too
C5_Witness ==
  \E p \in Procs :
    /\ Created(p)
    /\ UserField(p, "title") = ""
    /\ ImageField(p, "description") = "Large pothole"
    /\ VoiceField(p, "description") = "Lamp is out"
    /\ NewIssue(p).title = "Large pothole"

\* C6: the issueType of a created issue is the first non-empty of the user's
\* choice, the image-detected type and the voice-extracted type, else "other":
\* with no AI input it is the value the user gave, and with a detection result
\* and no user choice it is the detection's issueType.
C6_IssueTypePrecedence ==
  \A p \in Procs :
    Created(p) =>
      /\ NewIssue(p).issueType =
           FirstNonEmpty(<<UserField(p, "issueType"), ImageField(p, "issueType"),
                           VoiceField(p, "issueType")>>, "other")
      /\ (req[p].aiDetectionResult = <<>> /\ req[p].extractedInfo = <<>>
            /\ UserField(p, "issueType") # "")
           => NewIssue(p).issueType = UserField(p, "issueType")
      /\ (req[p].aiDetectionResult # <<>> /\ UserField(p, "issueType") = "")
           => NewIssue(p).issueType = req[p].aiDetectionResult[1].issueType

\* only a detection result gives a type, and the voice extraction has another
C6_Witness ==
  \E p \in Procs :
    /\ Created(p)
    /\ UserField(p, "issueType") = ""
    /\ ImageField(p, "issueType") = "pothole"
    /\ VoiceField(p, "issueType") = "streetlight"
    /\ NewIssue(p).issueType = "pothole"

\* C7: the priority of a created issue is the first non-empty of the user's
\* choice, the image-detection severity and the voice-extracted priority, else
\* "medium".
C7_PriorityPrecedence ==
  \A p \in Procs :
    Created(p) =>
      NewIssue(p).priority =
        FirstNonEmpty(<<UserField(p, "priority"), ImageField(p, "severity"),
                        VoiceField(p, "priority")>>, "medium")

\* no user priority, the image says high and the voice says low
C7_Witness ==
  \E p \in Procs :
    /\ Created(p)
    /\ UserField(p, "priority") = ""
    /\ ImageField(p, "severity") = "high"
    /\ VoiceField(p, "priority") = "low"
    /\ NewIssue(p).priority = "high"

\* C8, as claimed: the description of a created issue follows the chain of
\* title to its end, the default "New Issue".
C8_DescriptionDefaultsToNewIssue ==
  \A p \in Procs :
    Created(p) =>
      NewIssue(p).description =
        FirstNonEmpty(<<UserField(p, "description"), ImageField(p, "description"),
                        VoiceField(p, "description")>>, "New Issue")

\* C8, amended: the description of a created issue is the first non-empty of
\* the user's description, the image-detection description and the
\* voice-extraction description, whatever the title was resolved to; when none
\* is non-empty there is no default: the description is the empty
\* voice-extraction description if there is a voice extraction, else null.
C8_DescriptionPrecedence ==
  \A p \in Procs :
    Created(p) =>
      NewIssue(p).description =
        FirstNonEmpty(<<UserField(p, "description"), ImageField(p, "description"),
                        VoiceField(p, "description")>>,
                      IF req[p].extractedInfo = <<>> THEN NULL ELSE "")

\* the title is the user's and the description the image's
C8_Witness ==
  \E p \in Procs :
    /\ Created(p)
    /\ NewIssue(p).title = "Broken lamp"
    /\ UserField(p, "description") = ""
    /\ NewIssue(p).description = "Large pothole"

\* C9: the location of a created issue is the user's location if non-empty,
\* else the voice-extracted location if there is one, else the empty string;
\* the image detection has no part in it.
C9_LocationPrecedence ==
  \A p \in Procs :
    Created(p) =>
      NewIssue(p).location =
        IF UserField(p, "location") \notin {"", NULL, UNDEFINED}
        THEN UserField(p, "location")
        ELSE IF req[p].extractedInfo # <<>>
                /\ req[p].extractedInfo[1].location \notin {"", NULL, UNDEFINED}
        THEN req[p].extractedInfo[1].location
        ELSE ""

\* a detection result is there and the location is the voice's
C9_Witness ==
  \E p \in Procs :
    /\ Created(p)
    /\ UserField(p, "location") = ""
    /\ req[p].aiDetectionResult # <<>>
    /\ NewIssue(p).location = "MG Road"

\* C10: the assignedDepartment of a created issue is the user's value if
\* non-empty, else the image detection's suggestedDepartment if there is a
\* detection result, else the empty string; the voice extraction has no part
\* in it.
C10_DepartmentPrecedence ==
  \A p \in Procs :
    Created(p) =>
      NewIssue(p).assignedDepartment =
        IF UserField(p, "assignedDepartment") \notin {"", NULL, UNDEFINED}
        THEN UserField(p, "assignedDepartment")
        ELSE IF req[p].aiDetectionResult # <<>>
        THEN req[p].aiDetectionResult[1].suggestedDepartment
        ELSE ""

\* a voice extraction is there and the department is the image's suggestion
C10_Witness ==
  \E p \in Procs :
    /\ Created(p)
    /\ UserField(p, "assignedDepartment") = ""
    /\ req[p].extractedInfo # <<>>
    /\ NewIssue(p).assignedDepartment = "Public Works"

\* C11: the aiConfidence of a created issue is the detection result's
\* confidence, for every confidence from 0 to 1, when there is a detection
\* result, and null when there is none; the stored value is within [0, 1].
C11_AiConfidence ==
  \A p \in Procs :
    Created(p) =>
      /\ req[p].aiDetectionResult # <<>>
           => NewIssue(p).aiConfidence = <<req[p].aiDetectionResult[1].confidence>>
      /\ req[p].aiDetectionResult = <<>> => NewIssue(p).aiConfidence = <<>>
      /\ NewIssue(p).aiConfidence # <<>>
           => NewIssue(p).aiConfidence[1] \in 0..100

\* the user's issueType and priority are of their enumerations or left empty
TypeAndPriorityValid(p) ==
  /\ req[p].body.issueType \in IssueTypes \cup {""}
  /\ req[p].body.priority \in Priorities \cup {""}

\* the strings that spell a number
NumericStrings == {"19.07", "72.87", "0"}

\* the user's fields are valid: issueType and priority as above, and each
\* coordinate a number or left out
UserFieldsValid(p) ==
  /\ TypeAndPriorityValid(p)
  /\ req[p].body.latitude \in NumericStrings \cup {UNDEFINED, ""}
  /\ req[p].body.longitude \in NumericStrings \cup {UNDEFINED, ""}

\* each AI result is absent (no attachment or a failed call) or within the
\* typed contract of its service
AiWithinContract(p) ==
  /\ req[p].aiDetectionResult # <<>> =>
       /\ req[p].aiDetectionResult[1].issueType \in IssueTypes
       /\ req[p].aiDetectionResult[1].severity \in Priorities
  /\ req[p].extractedInfo # <<>> =>
       /\ req[p].extractedInfo[1].issueType \in IssueTypes
       /\ req[p].extractedInfo[1].priority \in Priorities

EntriesOf(h, i) == SelectSeq(h, LAMBDA e : e.issueId = i)

\* C13: a submission that answers 201 has created an issue with status
\* submitted and has appended, before the answer, exactly one history entry
\* for it, with status submitted; that entry is the first of the issue's
\* history.
C13_SubmissionLogsSubmitted ==
  \A p \in Procs :
    (pc[p] = "done" /\ req[p].kind = "post" /\ req[p].res = 201)
    => /\ IssueExists(req[p].id)
       /\ issues[req[p].id].status = "submitted"
       /\ Len(EntriesOf(history, req[p].id)) = 1
       /\ EntriesOf(history, req[p].id)[1].status = "submitted"
       /\ EntriesOf(history, req[p].id)[1].notes = "Issue submitted"
       /\ history[Len(history)].issueId = req[p].id

\* the second submission answered 201, the first issue having its own entries
C13_Witness ==
  \E p \in Procs :
    /\ pc[p] = "done"
    /\ req[p].kind = "post"
    /\ req[p].res = 201
    /\ req[p].id = 2
    /\ Len(EntriesOf(history, 1)) >= 1

\* C14: a status update is accepted whatever the issue's current status: the
\* update of an existing issue that the database answers writes the requested
\* status exactly when that status is of the enumeration.
C14_AnyTargetFromAnyStatus ==
  [][\A p \in Procs :
       (/\ pc[p] = "patch_update"
        /\ pc'[p] # "patch_update"
        /\ IssueExists(req[p].id)
        /\ req'[p].error # "storage")
       => (req[p].body.status \in IssueStatuses
             <=> /\ req'[p].wrote
                 /\ issues'[req[p].id].status = req[p].body.status)]_vars

\* an update to acknowledged written on an issue whose last recorded status
\* is rejected
C14_Witness ==
  \E p \in Procs :
    /\ pc[p] = "patch_history"
    /\ req[p].wrote
    /\ req[p].body.status = "acknowledged"
    /\ issues[req[p].id].status = "acknowledged"
    /\ EntriesOf(history, req[p].id) # <<>>
    /\ EntriesOf(history, req[p].id)[Len(EntriesOf(history, req[p].id))].status = "rejected"

Terminal == {"resolved", "rejected"}

\* C15 as stated: once an issue is resolved or rejected no step changes its
\* status, and rejected is entered only from a status that is not terminal.
C15_TerminalStatusesFinal ==
  [][\A i \in 1..Len(issues) :
       /\ issues[i].status \in Terminal => issues'[i].status = issues[i].status
       /\ (issues'[i].status = "rejected" /\ issues[i].status # "rejected")
            => issues[i].status \notin Terminal]_vars

\* C15: resolved and rejected are not enforced as terminal: a status update
\* applied to an issue that is resolved or rejected sets the issue's status to
\* the requested one, whichever status of the enumeration that is.
C15_TerminalNotEnforced ==
  [][\A p \in Procs :
       (UpdateApplied(p) /\ issues[req[p].id].status \in Terminal)
       => /\ req[p].body.status \in IssueStatuses
          /\ issues'[req[p].id].status = req[p].body.status]_vars

\* an issue that was resolved (its resolution date is set) and is now
\* rejected by an applied update
C15_Witness ==
  \E p \in Procs :
    /\ pc[p] = "patch_history"
    /\ req[p].wrote
    /\ req[p].body.status = "rejected"
    /\ issues[req[p].id].status = "rejected"
    /\ issues[req[p].id].actualResolutionDate # <<>>

IsPrefix(a, b) == Len(a) <= Len(b) /\ SubSeq(b, 1, Len(a)) = a

\* C16: the history is append-only: after every step the history as a whole,
\* and the history of each issue, has its earlier value as a prefix, so no
\* entry is changed, removed or reordered.
C16_HistoryAppendOnly ==
  [][/\ IsPrefix(history, history')
     /\ \A i \in 0..Len(issues) :
          IsPrefix(EntriesOf(history, i), EntriesOf(history', i))]_vars

\* an issue with its submission entry and the entry of an update
C16_Witness ==
  \E i \in 1..Len(issues) :
    /\ Len(EntriesOf(history, i)) >= 2
    /\ EntriesOf(history, i)[1].status = "submitted"

\* the response of a read of an issue's history
HistoryRead(p) ==
  /\ pc[p] = "done"
  /\ req[p].kind = "history"
  /\ req[p].res = 200

\* how often e occurs in the sequence s
Occurrences(s, e) == Cardinality({k \in 1..Len(s) : s[k] = e})

\* C17 as stated: reading an issue's history returns the entries appended for
\* that issue, none of another, in ascending creation order, so that they come
\* in the order they were appended.
C17_HistoryReadInAppendOrder ==
  \A p \in Procs :
    HistoryRead(p) => req[p].entries = EntriesOf(history, req[p].id)

\* C17: reading an issue's history returns exactly the entries appended for
\* that issue, none of another, in ascending order of createdAt; they come in
\* the order they were appended when their createdAt all differ, and entries
\* with the same createdAt come in either order.
C17_HistoryReadAscending ==
  \A p \in Procs :
    HistoryRead(p) =>
      LET r == req[p].entries
          appended == EntriesOf(history, req[p].id)
      IN /\ Len(r) = Len(appended)
         /\ \A k \in 1..Len(r) :
              /\ r[k].issueId = req[p].id
              /\ Occurrences(r, r[k]) = Occurrences(appended, r[k])
         /\ \A a, b \in 1..Len(r) : a < b => r[a].createdAt <= r[b].createdAt
         /\ (\A a, b \in 1..Len(appended) :
               a # b => appended[a].createdAt # appended[b].createdAt)
            => r = appended

\* a read of an issue that has two entries created at different times, while
\* another issue has entries of its own
C17_Witness ==
  \E p \in Procs :
    /\ HistoryRead(p)
    /\ Len(req[p].entries) >= 2
    /\ req[p].entries[1].createdAt < req[p].entries[2].createdAt
    /\ \E i \in 1..Len(issues) : i # req[p].id /\ EntriesOf(history, i) # <<>>

\* the response of a read of the statistics, and the issues it is over
StatsRead(p) ==
  /\ pc[p] = "done"
  /\ req[p].kind = "stats"
  /\ req[p].res = 200

Selected(p) ==
  {k \in 1..Len(issues) :
     req[p].department \in {UNDEFINED, ""}
     \/ issues[k].assignedDepartment = req[p].department}

WithStatus(p, s) == {k \in Selected(p) : issues[k].status = s}

\* C18: over the selected issues total is their number, pending the number
\* of submitted plus the number of acknowledged ones, inProgress the number
\* of in_progress ones and resolved the number of resolved ones; no issue is
\* counted in more than one of pending, inProgress and resolved.
C18_StatsCounts ==
  \A p \in Procs :
    StatsRead(p) =>
      LET st == req[p].stats[1]
      IN /\ st.total = Cardinality(Selected(p))
         /\ st.pending = Cardinality(WithStatus(p, "submitted"))
                           + Cardinality(WithStatus(p, "acknowledged"))
         /\ st.inProgress = Cardinality(WithStatus(p, "in_progress"))
         /\ st.resolved = Cardinality(WithStatus(p, "resolved"))
         /\ st.pending + st.inProgress + st.resolved
              = st.total - Cardinality(WithStatus(p, "rejected"))

\* statistics over a submitted, an acknowledged, an in_progress and a
\* resolved issue
C18_Witness ==
  \E p \in Procs :
    /\ StatsRead(p)
    /\ req[p].stats[1].pending = 2
    /\ req[p].stats[1].inProgress = 1
    /\ req[p].stats[1].resolved = 1
    /\ WithStatus(p, "submitted") # {}
    /\ WithStatus(p, "acknowledged") # {}

\* the issues the average is over
Qualifying(p) ==
  {k \in WithStatus(p, "resolved") : issues[k].actualResolutionDate # <<>>}

\* the whole days of issue k: the least d with d days >= its duration
WholeDays(k) ==
  CHOOSE d \in 0..4 :
    /\ d * MsPerDay >= issues[k].actualResolutionDate[1] - issues[k].createdAt
    /\ (d - 1) * MsPerDay < issues[k].actualResolutionDate[1] - issues[k].createdAt

RECURSIVE SumWholeDays(_)
SumWholeDays(K) ==
  IF K = {} THEN 0
  ELSE LET k == CHOOSE x \in K : TRUE IN WholeDays(k) + SumWholeDays(K \ {k})

\* C19: avgResolutionDays is over the issues that are resolved and have an
\* actualResolutionDate, and no other issue affects it: each of them counts
\* ceil((actualResolutionDate - createdAt) / one day) whole days, and the
\* result is their mean rounded to one decimal (the nearest tenth, a half
\* going up).
C19_AvgResolutionDays ==
  \A p \in Procs :
    (StatsRead(p) /\ Qualifying(p) # {}) =>
      LET n == Cardinality(Qualifying(p))
          total == SumWholeDays(Qualifying(p))
          avg == req[p].stats[1].avgResolutionDays
      IN /\ 2 * (avg * n - 10 * total) <= n
         /\ 2 * (avg * n - 10 * total) > -n

\* three resolved issues of 1, 3 and 3 whole days, one of them resolved after
\* 2 days and 1 ms, and a resolved issue without a date: the average is 2.3
C19_Witness ==
  \E p \in Procs :
    /\ StatsRead(p)
    /\ Cardinality(Qualifying(p)) = 3
    /\ \E k \in Qualifying(p) : issues[k].actualResolutionDate = <<2 * MsPerDay + 1>>
    /\ WithStatus(p, "resolved") # Qualifying(p)
    /\ req[p].stats[1].avgResolutionDays = 23

\* C20: avgResolutionDays is 0 when no issue is both resolved and has an
\* actualResolutionDate, the empty set of issues included; over one issue
\* created at T and resolved at T + 3 days it is 3.0.
C20_AvgZeroOrThree ==
  \A p \in Procs :
    StatsRead(p) =>
      /\ Qualifying(p) = {} => req[p].stats[1].avgResolutionDays = 0
      /\ \A k \in Qualifying(p) :
           (/\ Qualifying(p) = {k}
            /\ issues[k].actualResolutionDate[1] - issues[k].createdAt = 3 * MsPerDay)
           => req[p].stats[1].avgResolutionDays = 30

\* statistics over one issue resolved 3 days after its creation, beside an
\* issue that has a date and is not resolved
C20_Witness ==
  \E p \in Procs :
    /\ StatsRead(p)
    /\ \E k \in Qualifying(p) :
         /\ Qualifying(p) = {k}
         /\ issues[k].actualResolutionDate[1] - issues[k].createdAt = 3 * MsPerDay
    /\ \E j \in Selected(p) :
         issues[j].status # "resolved" /\ issues[j].actualResolutionDate # <<>>
    /\ req[p].stats[1].avgResolutionDays = 30

\* C21 as stated: latitude and longitude are parsed from the string inputs; an
\* absent, empty or non-numeric string gives null for that field and never
\* makes the submission fail.
C21_GpsParsedOrNull ==
  \A p \in Procs :
    (/\ pc[p] = "done"
     /\ req[p].kind = "post"
     /\ TypeAndPriorityValid(p)
     /\ AiWithinContract(p)
     /\ req[p].error # "storage")
    => /\ req[p].res = 201
       /\ req[p].wrote
       /\ \A f \in {"latitude", "longitude"} :
            IF req[p].body[f] \in NumericStrings
            THEN NewIssue(p)[f] = <<parseFloat(req[p].body[f])>>
            ELSE NewIssue(p)[f] = <<>>

\* the fused payload of p's submission
Fused(p) == IssueData(req[p].body, req[p].aiDetectionResult, req[p].extractedInfo)

\* C22: a submission whose fused payload fails validation is answered with an
\* error that names exactly the offending fields, which the answer to a
\* storage failure never does, and nothing is persisted: no issue is created
\* and no history entry is appended.
C22_ValidationErrorPersistsNothing ==
  \A p \in Procs :
    (pc[p] = "done" /\ req[p].kind = "post") =>
      /\ (\/ Fused(p).issueType \notin IssueTypes
          \/ Fused(p).priority \notin Priorities
          \/ Fused(p).latitude = <<NaN>>
          \/ Fused(p).longitude = <<NaN>>)
         => /\ req[p].res = 500
            /\ req[p].error = "validation"
            /\ "issueType" \in req[p].fields <=> Fused(p).issueType \notin IssueTypes
            /\ "priority" \in req[p].fields <=> Fused(p).priority \notin Priorities
            /\ "latitude" \in req[p].fields <=> Fused(p).latitude = <<NaN>>
            /\ "longitude" \in req[p].fields <=> Fused(p).longitude = <<NaN>>
            /\ ~req[p].wrote
            /\ ~req[p].logged
            /\ issues = <<>>
            /\ history = <<>>
      /\ req[p].error = "storage" => req[p].fields = {}

\* a submission refused for the issueType and the priority that the voice
\* extraction supplied
C22_Witness ==
  \E p \in Procs :
    /\ pc[p] = "done"
    /\ req[p].kind = "post"
    /\ req[p].body.issueType = ""
    /\ req[p].fields = {"issueType", "priority"}
    /\ req[p].res = 500
    /\ issues = <<>>

\* p's submission carried a photo and audio, and has ended without a storage
\* failure, its user fields valid and its AI results within contract
BothPathsDone(p) ==
  /\ pc[p] = "done"
  /\ req[p].kind = "post"
  /\ req[p].hasPhoto
  /\ req[p].hasAudio
  /\ UserFieldsValid(p)
  /\ AiWithinContract(p)
  /\ req[p].error # "storage"

\* the fields of an issue created with one AI path failed
FusedWithoutFailedPath ==
  \A p \in Procs :
    /\ (BothPathsDone(p) /\ req[p].aiDetectionResult = <<>> /\ req[p].extractedInfo # <<>>)
       => /\ req[p].res = 201
          /\ NewIssue(p).title =
               FirstNonEmpty(<<UserField(p, "title"), VoiceField(p, "description")>>,
                             "New Issue")
          /\ NewIssue(p).description =
               FirstNonEmpty(<<UserField(p, "description")>>, VoiceField(p, "description"))
          /\ NewIssue(p).issueType =
               FirstNonEmpty(<<UserField(p, "issueType"), VoiceField(p, "issueType")>>,
                             "other")
          /\ NewIssue(p).priority =
               FirstNonEmpty(<<UserField(p, "priority"), VoiceField(p, "priority")>>,
                             "medium")
          /\ NewIssue(p).location =
               FirstNonEmpty(<<UserField(p, "location"), VoiceField(p, "location")>>, "")
          /\ NewIssue(p).assignedDepartment =
               FirstNonEmpty(<<UserField(p, "assignedDepartment")>>, "")
          /\ NewIssue(p).aiConfidence = <<>>
    /\ (BothPathsDone(p) /\ req[p].extractedInfo = <<>> /\ req[p].aiDetectionResult # <<>>)
       => /\ req[p].res = 201
          /\ NewIssue(p).title =
               FirstNonEmpty(<<UserField(p, "title"), ImageField(p, "description")>>,
                             "New Issue")
          /\ NewIssue(p).description =
               FirstNonEmpty(<<UserField(p, "description")>>, ImageField(p, "description"))
          /\ NewIssue(p).issueType =
               FirstNonEmpty(<<UserField(p, "issueType"), ImageField(p, "issueType")>>,
                             "other")
          /\ NewIssue(p).priority =
               FirstNonEmpty(<<UserField(p, "priority"), ImageField(p, "severity")>>,
                             "medium")
          /\ NewIssue(p).location = FirstNonEmpty(<<UserField(p, "location")>>, "")
          /\ NewIssue(p).assignedDepartment =
               FirstNonEmpty(<<UserField(p, "assignedDepartment"),
                               ImageField(p, "suggestedDepartment")>>, "")

\* C23: the failure of one AI call neither blocks the submission nor undoes
\* what the other path gave: with the image analysis failed and the voice
\* extraction there, every field of the created issue is the user's value,
\* else the voice extraction's, else the default; with the voice path failed
\* and the image analysis there, it is the user's value, else the image's,
\* else the default.
\* The audio step, whatever its outcome, leaves the result of the image
\* analysis as it was.
C23_OneAiFailureKeepsOther ==
  [][/\ \A p \in Procs :
          pc[p] = "post_audio" => req'[p].aiDetectionResult = req[p].aiDetectionResult
     /\ FusedWithoutFailedPath']_vars

\* the voice path failed after the transcription, and the image analysis gave
\* the type and the department of the created issue
C23_Witness ==
  \E p \in Procs :
    /\ BothPathsDone(p)
    /\ req[p].extractedInfo = <<>>
    /\ req[p].transcription = "lamp broken"
    /\ req[p].aiDetectionResult # <<>>
    /\ UserField(p, "issueType") = ""
    /\ UserField(p, "assignedDepartment") = ""
    /\ NewIssue(p).issueType = "pothole"
    /\ NewIssue(p).assignedDepartment = "Public Works"
    /\ req[p].res = 201

\* the response of a read of the issue list
ListRead(p) ==
  /\ pc[p] = "done"
  /\ req[p].kind = "list"
  /\ req[p].res = 200

\* the ids of the issues assigned to the department p asked for
Matching(p) ==
  {k \in 1..Len(issues) : issues[k].assignedDepartment = req[p].department}

\* the ids of the issues in p's list response
Listed(p) == {req[p].entries[j].id : j \in 1..Len(req[p].entries)}

StoredAs(stored, supplied) ==
  stored = supplied \/ (stored \in {"", NULL} /\ supplied = "")

\* C25: a status update overwrites assignedDepartment and assignedTo: each of
\* the two that the update supplies takes the supplied value, each that it
\* does not supply keeps its value, and no field of the issue other than
\* these two, status, actualResolutionDate and updatedAt changes.
C25_AssignmentOverwrite ==
  [][\A p \in Procs :
       UpdateApplied(p) =>
         LET id == req[p].id
         IN /\ \A f \in {"assignedDepartment", "assignedTo"} :
                 IF req[p].body[f] # UNDEFINED
                 THEN StoredAs(issues'[id][f], req[p].body[f])
                 ELSE issues'[id][f] = issues[id][f]
            /\ \A f \in DOMAIN issues[id] \ {"assignedDepartment", "assignedTo", "status",
                                             "actualResolutionDate", "updatedAt"} :
                 issues'[id][f] = issues[id][f]]_vars

C27_LatestEntryIsCurrentStatus ==
  \A p, q \in DOMAIN pc :
    (/\ p # q
     /\ pc[p] = "done" /\ req[p].kind = "patch" /\ req[p].res = 200
     /\ pc[q] = "done" /\ req[q].kind = "patch" /\ req[q].res = 200
     /\ req[p].id = req[q].id)
    => LET entries == EntriesOf(history, req[p].id)
       IN entries[Len(entries)].status = issues[req[p].id].status

\* C28: in every state reached by submissions and status updates, every issue
\* whose status is resolved has actualResolutionDate present, so the issues
\* that enter the avgResolutionDays computation are all the resolved issues.
C28_ResolvedHasDate ==
  /\ \A i \in 1..Len(issues) :
       issues[i].status = "resolved" => issues[i].actualResolutionDate # <<>>
  /\ ResolvedIssues(issues) = SelectSeq(issues, LAMBDA i : i.status = "resolved")

\* an issue has been resolved by a status update and the handler has answered
C28_Witness ==
  \E p \in Procs :
    /\ pc[p] = "done"
    /\ req[p].kind = "patch"
    /\ req[p].wrote
    /\ issues[req[p].id].status = "resolved"
    /\ Len(ResolvedIssues(issues)) = 1

\* C29: a status update to resolved on an issue that already has
\* actualResolutionDate set replaces the stored date with the time of that
\* update, whatever the issue's status is; the first date is not kept.
C29_LaterResolutionReplacesDate ==
  [][\A p \in Procs :
       (/\ UpdateApplied(p)
        /\ req[p].body.status = "resolved"
        /\ issues[req[p].id].actualResolutionDate # <<>>)
       => /\ issues'[req[p].id].actualResolutionDate = <<req[p].stamp>>
          /\ (issues[req[p].id].actualResolutionDate # <<req[p].stamp>>
                => issues'[req[p].id].actualResolutionDate
                     # issues[req[p].id].actualResolutionDate)]_vars

\* an issue resolved at an earlier time has been resolved again: its history
\* has the earlier resolution and the row has the later time
C29_Witness ==
  \E p \in Procs :
    /\ pc[p] = "patch_history"
    /\ req[p].wrote
    /\ req[p].body.status = "resolved"
    /\ issues[req[p].id].actualResolutionDate = <<req[p].stamp>>
    /\ \E k \in 1..Len(history) :
         /\ history[k].issueId = req[p].id
         /\ history[k].status = "resolved"
         /\ history[k].createdAt < req[p].stamp

\* C30: every issue a submission persists has an issueType of
\* {pothole, garbage, streetlight, water_leakage, road_damage, other} and a
\* priority of {low, medium, high, critical}, whatever the user, the image
\* detection and the voice extraction supplied; a submission whose fused
\* issueType or priority is outside its enumeration fails validation before
\* any write: no issue is created and no history entry is appended for it.
C30_PersistedEnumsValid ==
  /\ \A i \in 1..Len(issues) :
       /\ issues[i].issueType \in IssueTypes
       /\ issues[i].priority \in Priorities
  /\ \A p \in Procs :
       (/\ pc[p] \in {"post_history", "done"}
        /\ req[p].kind = "post"
        /\ (Fused(p).issueType \notin IssueTypes \/ Fused(p).priority \notin Priorities))
       => /\ pc[p] = "done"
          /\ req[p].error = "validation"
          /\ ~req[p].wrote
          /\ ~req[p].logged
          /\ Len(issues) = 0
          /\ Len(history) = 0

\* a submission whose issueType came from the image detection, outside the
\* enumeration, has been refused with nothing written
C30_Witness ==
  \E p \in Procs :
    /\ pc[p] = "done"
    /\ req[p].kind = "post"
    /\ Falsy(UserField(p, "issueType"))
    /\ ImageField(p, "issueType") \notin IssueTypes \cup {NULL, UNDEFINED, ""}
    /\ Fused(p).issueType = ImageField(p, "issueType")
    /\ req[p].error = "validation"
    /\ Len(issues) = 0

====
